---- MODULE Spec2Model ----
(***************************************************************************)
(* The vanilla store of zustand (createStoreImpl): one mutable snapshot,   *)
(* a Set of listeners, setState / getState / getInitialState / subscribe,  *)
(* the construction protocol (the initializer receives setState, getState  *)
(* and the store handle) and middlewares that wrap setState.               *)
(*                                                                         *)
(* JavaScript values are records: undefined, null, numbers, functions and  *)
(* references to objects.  Objects live in a heap (a sequence of field     *)
(* maps, the reference is the index), so identity (Object.is) and          *)
(* structural equality are different things, and an in-place assignment    *)
(* is different from building a new object.                                *)
(***************************************************************************)
EXTENDS Integers, Sequences, FiniteSets, TLC

(* ------------------------------ bounds -------------------------------- *)
\* objects alive at once besides the initializer's literal and the nested
\* ones (a setState re-entered by a listener keeps the snapshots of the
\* passes in progress alive, so this bounds the depth of re-entrance too)
MaxAlloc == 2
\* subscribe calls (each returns one unsubscribe closure)
MaxSubs == 2
\* hydration attempts (the one construction starts and rehydrate() calls)
MaxAttempts == 2
\* subscribe calls where the order of the registry is followed
MaxResubs == 3

VARIABLES
  phase,         \* "constructing" | "ready" | "failed" (createStoreImpl threw)
  state,         \* let state                     (part_000:204)
  initialState,  \* const initialState            (part_000:262), Undef before
  listeners,     \* const listeners = new Set()   (part_000:206), insertion order
  heap,          \* the objects: heap[i] is the field map of object i, or Free
  apiSetState,   \* api.setState, the slot middlewares overwrite (part_000:258)
  stack,         \* the call stack, innermost call last
  closures,      \* the unsubscribe closures made by subscribe, in order
  mws,           \* the middlewares the store is built with, outermost first
  captured,      \* the setState the innermost initializer received (its `set`)
  initCalls,     \* how many times createStoreImpl called createState
  ev,            \* the last step taken, with what it read and wrote
  apiSubscribe,  \* api.subscribe, a slot middlewares may overwrite too
  apiCaps,       \* the properties middlewares added to api (api.persist, ...)
  thrown,        \* the listener errors that left setState: << >>, or the
                 \* listeners the pass of the last one did not call
  storage,       \* persist: the item under the configured name, or NoItem
  attempts,      \* persist: the hydration attempts whose read is in flight
  attemptCounter,\* persist: the number of hydration attempts started
  hydration,     \* persist: status "NotStarted" | "InProgress" | "Completed",
                 \* and the attempts a later one was started over
  finished,      \* persist: the calls of the hydration-finished callbacks
  skipHydration, \* persist: the skipHydration option
  views          \* per registered listener, whether the next it was last
                 \* called with since it is registered is still the store's
                 \* state: "none" (not called) | "current" | "stale"

\* the store handle besides its setState
handleVars == <<apiSubscribe, apiCaps>>

\* the persistence subsystem
persistVars ==
  <<storage, attempts, attemptCounter, hydration, finished, skipHydration>>

\* the store without its objects and the record of the last step
storeVars == <<phase, state, initialState, listeners, apiSetState, stack,
               closures, mws, captured, initCalls, handleVars, thrown,
               views>>

vars == <<phase, state, initialState, listeners, heap, apiSetState, stack,
          closures, mws, captured, initCalls, ev, handleVars, thrown,
          persistVars, views>>

(* ------------------------------ values -------------------------------- *)
Undef == [t |-> "undef"]
Null == [t |-> "null"]
Num(n) == [t |-> "num", n |-> n]
Ref(i) == [t |-> "obj", id |-> i]
\* the action the initializer stores in the state: () => set(s => ({a: ...}))
IncFn == [t |-> "fn", name |-> "inc"]

NoFields == [k \in {} |-> Undef]

IsObj(v) == v.t = "obj"

\* the own enumerable fields of a value in heap h; a non-object has none
FieldsIn(h, v) == IF IsObj(v) THEN h[v.id] ELSE NoFields

Fields(v) == FieldsIn(heap, v)

\* Object.is(a, b): identity for objects, value equality for the rest
ObjectIs(a, b) == a = b

\* f overwritten field by field by g
Overwrite(f, g) ==
  [k \in DOMAIN f \cup DOMAIN g |-> IF k \in DOMAIN g THEN g[k] ELSE f[k]]

(* --------------------------- setState, pure --------------------------- *)
\* the replace argument: true, false, or not given (undefined)
Replace == {"true", "false", "omitted"}

\* the nested objects callers put in their literals
NestA == Ref(1)
NestB == Ref(2)
NestHeap == << [x |-> Num(0)], [y |-> Num(1)] >>

\* the object literals callers pass to setState
Lits ==
  { Overwrite(fa, fn) :
      fa \in {NoFields, [a |-> Num(0)], [a |-> Num(1)]},
      fn \in {NoFields, [n |-> NestA], [n |-> NestB]} }

\* what a caller passes as `partial`: getState(), a primitive, a fresh object
\* literal, or an updater function (s => s, s => ({a: 1 - s.a}))
Inputs ==
  {[kind |-> "cur"], [kind |-> "fnSelf"], [kind |-> "fnBump"]}
    \cup {[kind |-> "prim", v |-> v] : v \in {Num(1), Null}}
    \cup {[kind |-> "lit", f |-> f] : f \in Lits}

\* typeof partial === 'function'
IsFunction(in) == in.kind \in {"fnSelf", "fnBump"}

\* the updater s => ({a: 1 - s.a}) is only given to a state with a numeric a
CanBump(st, h) ==
  /\ IsObj(st)
  /\ "a" \in DOMAIN FieldsIn(h, st)
  /\ FieldsIn(h, st).a.t = "num"

Usable(in, st, h) == in.kind = "fnBump" => CanBump(st, h)

\* a slot of the heap that holds no object
Free == [free |-> TRUE]

FreeSlots(h) == {i \in DOMAIN h : h[i] = Free}

\* a new object with fields f, in the first free slot: the heap after, and
\* the reference
New(h, f) ==
  LET i == CHOOSE j \in FreeSlots(h) : \A m \in FreeSlots(h) : j <= m
  IN [heap |-> [h EXCEPT ![i] = f], ref |-> Ref(i)]

\* nextState = typeof partial === 'function' ? partial(state) : partial
\* (with the heap after the caller's or the updater's literal is built)
NextStateOf(in, st, h) ==
  CASE in.kind = "cur" -> [heap |-> h, v |-> st]
    [] in.kind = "prim" -> [heap |-> h, v |-> in.v]
    [] in.kind = "lit" -> [heap |-> New(h, in.f).heap, v |-> New(h, in.f).ref]
    [] in.kind = "fnSelf" -> [heap |-> h, v |-> st]
    [] in.kind = "fnBump" ->
         LET f == [a |-> Num(1 - FieldsIn(h, st).a.n)]
         IN [heap |-> New(h, f).heap, v |-> New(h, f).ref]

\* the identity test left out: every call is taken for a change
AcceptedAlways(nextState, st) == TRUE

\* if (!Object.is(nextState, state))
Accepted(nextState, st) == ~ObjectIs(nextState, st)

\* replace ?? (typeof nextState !== 'object' || nextState === null)
ReplaceDirectly(replace, nextState) ==
  IF replace = "omitted" THEN ~IsObj(nextState) ELSE replace = "true"

\* Object.assign({}, nextState, state): the sources in the wrong order
ObjectAssignStateWins(h, st, nextState) ==
  New(h, Overwrite(FieldsIn(h, nextState), FieldsIn(h, st)))

\* Object.assign(state, nextState): the current object is written in place
ObjectAssignInPlace(h, st, nextState) ==
  IF IsObj(st)
  THEN [heap |-> [h EXCEPT ![st.id] = Overwrite(@, FieldsIn(h, nextState))],
        ref |-> st]
  ELSE New(h, FieldsIn(h, nextState))

\* Object.assign({}, state, nextState): a new object; sources that are not
\* objects contribute no field
ObjectAssign(h, st, nextState) ==
  New(h, Overwrite(FieldsIn(h, st), FieldsIn(h, nextState)))

\* the assignment of part_000:231-234: the heap and the state after
Commit(h, st, nextState, replace) ==
  IF ReplaceDirectly(replace, nextState)
  THEN [heap |-> h, state |-> nextState]
  ELSE [heap |-> ObjectAssign(h, st, nextState).heap,
        state |-> ObjectAssign(h, st, nextState).ref]

(* ---------------------------- the call stack --------------------------- *)
\* A setState function is the sequence of the middleware wrappers around the
\* core setState, the wrapper called first at the head; << >> is the core.
CoreSetState == << >>

\* the stacks createStore is called with: createStore(outer(inner(init)))
Middlewares == {<< >>, <<"outer">>, <<"outer", "inner">>}

Top == stack[Len(stack)]

Pop == SubSeq(stack, 1, Len(stack) - 1)

Range(q) == {q[i] : i \in DOMAIN q}

\* the innermost initializer is running (createState's body)
InInitializer ==
  /\ phase = "constructing"
  /\ stack # << >>
  /\ Top.k = "create"
  /\ Top.todo = << >>

InListener == stack # << >> /\ Top.k = "listener"

AtTopLevel == phase = "ready" /\ stack = << >>

\* code that may call the store: the application, a listener, the initializer
CanCall == AtTopLevel \/ InListener \/ InInitializer

\* () => initialState in the place of () => state
GetStateAtConstruction == initialState

\* getState (part_000:243) and getInitialState (part_000:246)
GetState == state

GetInitialState == initialState

\* a copy of api made before the initializer ran is returned instead of api
HandleOfCopy == << >>

\* return api (part_000:266): the handle's setState is the slot of the very
\* object the initializer and the middlewares were given
HandleSetState == apiSetState

\* return { setState, getState, getInitialState, subscribe }: a new object
\* with the core's functions, not the one the initializer was given
HandleSpread == [setState |-> CoreSetState, subscribe |-> << >>, caps |-> {}]

\* return api (part_000:266): api is the object createState was called with
\* (part_000:262), with the setState and subscribe its slots hold now and
\* the properties added to it
Handle ==
  [setState |-> HandleSetState, subscribe |-> apiSubscribe, caps |-> apiCaps]

\* the object literal the initializer returns
InitFields == [a |-> Num(0), b |-> Num(2), n |-> NestA, inc |-> IncFn]

(* ------------------------- objects that are alive ---------------------- *)
\* An object nothing refers to any more cannot be told from a new one, so its
\* slot is freed and used again: the heap holds the objects that the store,
\* a call in progress or the record of the last step can still reach.
RefKeys ==
  {"before", "cand", "after", "next", "prev", "mprev", "mnext", "saw", "ret"}

RefsOf(r) == {r[k].id : k \in {x \in DOMAIN r \cap RefKeys : IsObj(r[x])}}

Live(st, ini, stk, e) ==
  DOMAIN NestHeap
    \cup RefsOf([before |-> st, after |-> ini])
    \cup UNION {RefsOf(stk[j]) : j \in DOMAIN stk}
    \cup RefsOf(e)

Collect(h, live) == [i \in DOMAIN h |-> IF i \in live THEN h[i] ELSE Free]

NoEv == [op |-> "none"]

\* storage holds nothing under the configured name
NoItem == [item |-> "none"]

\* the heap a call starts from: what the last step recorded is let go
HeapNow == Collect(heap, Live(state, initialState, stack, NoEv))

\* the slots a call of setState needs: one for the caller's or the updater's
\* literal and one for the merged object
Need(in, replace) ==
  LET literal == in.kind \in {"lit", "fnBump"}
      cand == IF literal THEN Ref(0) ELSE NextStateOf(in, state, heap).v
  IN (IF literal THEN 1 ELSE 0)
       + (IF Accepted(cand, state) /\ ~ReplaceDirectly(replace, cand)
          THEN 1 ELSE 0)

\* room for them (the initializer's literal has a slot reserved while the
\* store is under construction)
Room(in, replace) ==
  Cardinality(FreeSlots(HeapNow))
    >= Need(in, replace) + (IF phase = "constructing" THEN 1 ELSE 0)

(* ------------------------------ setState ------------------------------ *)
\* state was assigned: what the listeners were called with is no longer the
\* store's state
Outdated(vw) ==
  [l \in DOMAIN vw |-> IF vw[l] = "none" THEN "none" ELSE "stale"]

\* listener l was called with `next` while the store's state was cur
Shown(vw, l, next, cur) ==
  [vw EXCEPT ![l] = IF ObjectIs(next, cur) THEN "current" ELSE "stale"]

\* the frames of one call of the setState function `chain`: the call itself,
\* one frame per wrapper, and the notification pass when the core accepted.
\* prev is the previousState local; mprev, mnext, via, seen, unsub and reent
\* only record what happened (the snapshots before and after the commit, who
\* called, the listeners called so far, whether a closure was called and
\* whether setState was re-entered and accepted since)
CallFrames(chain, via, acc, prev, next) ==
  << [k |-> "call", via |-> via, acc |-> acc, after |-> next,
      done |-> << >>, reent |-> FALSE] >>
    \o [j \in 1..Len(chain) |-> [k |-> "wrap", layer |-> chain[j]]]
    \o (IF acc
        THEN << [k |-> "notify", prev |-> prev, mprev |-> prev,
                 mnext |-> next, via |-> via, i |-> 0,
                 seen |-> {}, unsub |-> FALSE, reent |-> FALSE] >>
        ELSE << >>)

\* the calls and notification passes in progress see that setState was
\* re-entered and accepted
MarkReentered(stk, acc) ==
  [j \in DOMAIN stk |->
     IF acc /\ stk[j].k \in {"notify", "call"}
     THEN [stk[j] EXCEPT !.reent = TRUE]
     ELSE stk[j]]

\* setState(partial, replace) called on the function `chain`
\* (part_000:213-240, up to the start of listeners.forEach)
SetStateVia(chain, via, in, replace) ==
  /\ Usable(in, state, heap)
  /\ Room(in, replace)
  /\ LET ns == NextStateOf(in, state, HeapNow)
         acc == Accepted(ns.v, state)
         cm == IF acc THEN Commit(ns.heap, state, ns.v, replace)
               ELSE [heap |-> ns.heap, state |-> state]
     IN /\ state' = cm.state
        /\ stack' = MarkReentered(stack, acc)
                      \o CallFrames(chain, via, acc, state, cm.state)
        /\ ev' = [op |-> "set", via |-> via, in |-> in, replace |-> replace,
                  before |-> state, beforeF |-> Fields(state),
                  cand |-> ns.v, candF |-> FieldsIn(ns.heap, ns.v),
                  same |-> ObjectIs(ns.v, state),
                  acc |-> acc, after |-> cm.state,
                  afterF |-> FieldsIn(cm.heap, cm.state)]
        /\ heap' = Collect(cm.heap, Live(state', initialState, stack', ev'))
        /\ views' = IF acc THEN Outdated(views) ELSE views
  /\ UNCHANGED <<phase, initialState, listeners, apiSetState, closures,
                 mws, captured, initCalls, handleVars, thrown>>

\* the application or a listener calls store.setState(partial, replace)
SetState(in, replace) ==
  /\ AtTopLevel \/ InListener
  /\ SetStateVia(HandleSetState, "handle", in, replace)
  /\ UNCHANGED persistVars

\* the initializer calls the `set` it was given, before it returns
InitializerSet(in, replace) ==
  /\ InInitializer
  /\ SetStateVia(Top.set, "set", in, replace)
  /\ UNCHANGED persistVars

\* the application calls the action of the initial state,
\* getInitialState().inc(), which calls the captured set with an updater
CallAction ==
  /\ AtTopLevel
  /\ SetStateVia(captured, "action", [kind |-> "fnBump"], "omitted")
  /\ UNCHANGED persistVars

(* ------------------------- listeners.forEach --------------------------- *)
\* a forEach that gives up after the first entry
ForEachDoneEarly(i, ls) == i >= Len(ls) \/ i >= 1

\* Set.prototype.forEach has passed the first i entries: it is done when no
\* entry is left after them (entries added meanwhile are visited too)
ForEachDone(i, ls) == i >= Len(ls)

\* listener(previousState, state): the arguments in the wrong order
ListenerArgsSwapped(cur, previousState) ==
  [next |-> previousState, prev |-> cur]

\* listener(state, previousState): the arguments are the store's state as it
\* is when the listener is called and the previousState local of the call
ListenerArgs(cur, previousState) == [next |-> cur, prev |-> previousState]

\* listeners.forEach((listener) => listener(state, previousState)): the
\* next entry of the Set is called (part_000:238)
NotifyStep ==
  /\ stack # << >>
  /\ Top.k = "notify"
  /\ ~ForEachDone(Top.i, listeners)
  /\ LET l == listeners[Top.i + 1]
     IN /\ stack' = [stack EXCEPT ![Len(stack)] =
                        [@ EXCEPT !.i = @ + 1, !.seen = @ \cup {l}]]
                      \o << [k |-> "listener", l |-> l] >>
        /\ ev' = [op |-> "invoke", l |-> l,
                  next |-> ListenerArgs(state, Top.prev).next,
                  prev |-> ListenerArgs(state, Top.prev).prev,
                  mprev |-> Top.mprev, mnext |-> Top.mnext,
                  reent |-> Top.reent, registered |-> listeners]
        /\ views' = Shown(views, l, ListenerArgs(state, Top.prev).next, state)
  /\ heap' = Collect(heap, Live(state, initialState, stack', ev'))
  /\ UNCHANGED <<phase, state, initialState, listeners, apiSetState,
                 closures, mws, captured, initCalls,
                 handleVars, thrown, persistVars>>

\* forEach is through: the core setState returns to its caller
NotifyDone ==
  /\ stack # << >>
  /\ Top.k = "notify"
  /\ ForEachDone(Top.i, listeners)
  /\ stack' = Pop
  /\ ev' = [op |-> "notified", via |-> Top.via, seen |-> Top.seen,
            registered |-> listeners, unsub |-> Top.unsub,
            prevF |-> Fields(Top.mprev), nextF |-> Fields(Top.mnext),
            reent |-> Top.reent]
  /\ heap' = Collect(heap, Live(state, initialState, stack', ev'))
  /\ UNCHANGED <<phase, state, initialState, listeners, apiSetState,
                 closures, mws, captured, initCalls,
                 handleVars, thrown, views, persistVars>>

\* a listener returns
ListenerReturn ==
  /\ InListener
  /\ stack' = Pop
  /\ ev' = [op |-> "listened", l |-> Top.l]
  /\ heap' = Collect(heap, Live(state, initialState, stack', ev'))
  /\ UNCHANGED <<phase, state, initialState, listeners, apiSetState,
                 closures, mws, captured, initCalls,
                 handleVars, thrown, views, persistVars>>

(* ----------------------------- middleware ------------------------------ *)
\* the frame of the setState call the innermost frame belongs to
CallIdx ==
  CHOOSE j \in DOMAIN stack :
    /\ stack[j].k = "call"
    /\ \A m \in DOMAIN stack : m > j => stack[m].k # "call"

\* try { listener(state, previousState) } catch {}: forEach goes on with the
\* next listener
ListenerThrowSwallowed ==
  /\ InListener
  /\ stack' = Pop
  /\ thrown' = << Range(listeners) \ stack[Len(stack) - 1].seen >>
  /\ ev' = [op |-> "threw", l |-> Top.l, registered |-> listeners,
            seen |-> stack[Len(stack) - 1].seen,
            mprev |-> stack[Len(stack) - 1].mprev,
            mnext |-> stack[Len(stack) - 1].mnext,
            reent |-> stack[Len(stack) - 1].reent,
            i |-> stack[Len(stack) - 1].i,
            left |-> CallIdx]
  /\ heap' = Collect(heap, Live(state, initialState, stack', ev'))
  /\ UNCHANGED <<phase, state, initialState, listeners, apiSetState,
                 closures, mws, captured, initCalls, handleVars, persistVars,
                 views>>

\* a listener throws: nothing in setState catches (part_000:213-240), so
\* forEach and the setState call it belongs to (with the wrappers around it)
\* are left and the error is with the caller of that setState: the
\* application, or the listener or initializer that called it, which
\* catches it and goes on or lets it go further up
ListenerThrow ==
  /\ InListener
  /\ stack' = SubSeq(stack, 1, CallIdx - 1)
  /\ thrown' = << Range(listeners) \ stack[Len(stack) - 1].seen >>
  /\ ev' = [op |-> "threw", l |-> Top.l, registered |-> listeners,
            seen |-> stack[Len(stack) - 1].seen,
            mprev |-> stack[Len(stack) - 1].mprev,
            mnext |-> stack[Len(stack) - 1].mnext,
            reent |-> stack[Len(stack) - 1].reent,
            i |-> stack[Len(stack) - 1].i,
            left |-> CallIdx]
  /\ heap' = Collect(heap, Live(state, initialState, stack', ev'))
  /\ UNCHANGED <<phase, state, initialState, listeners, apiSetState,
                 closures, mws, captured, initCalls, handleVars, persistVars,
                 views>>

\* a wrapper (partial, replace) => { set(partial, replace); hook() }: its
\* call of set has returned, the hook reads getState(), the wrapper returns
WrapHook ==
  /\ stack # << >>
  /\ Top.k = "wrap"
  /\ stack' = [Pop EXCEPT ![CallIdx] = [@ EXCEPT !.done = Append(@, Top.layer)]]
  /\ ev' = [op |-> "hook", layer |-> Top.layer, saw |-> state,
            acc |-> stack[CallIdx].acc, after |-> stack[CallIdx].after,
            reent |-> stack[CallIdx].reent]
  /\ heap' = Collect(heap, Live(state, initialState, stack', ev'))
  /\ UNCHANGED <<phase, state, initialState, listeners, apiSetState,
                 closures, mws, captured, initCalls,
                 handleVars, thrown, views, persistVars>>

\* the outermost frame of a setState call: the call returns to its caller
Return ==
  /\ stack # << >>
  /\ Top.k = "call"
  /\ stack' = Pop
  /\ ev' = [op |-> "returned", via |-> Top.via, acc |-> Top.acc,
            done |-> Top.done, reent |-> Top.reent]
  /\ heap' = Collect(heap, Live(state, initialState, stack', ev'))
  /\ UNCHANGED <<phase, state, initialState, listeners, apiSetState,
                 closures, mws, captured, initCalls,
                 handleVars, thrown, views, persistVars>>

(* ------------------------------ subscribe ------------------------------ *)
\* the listener functions of the application
Listeners == {"l1", "l2"}

\* a registry that puts the newest function first
SetAddFront(ls, l) == IF l \in Range(ls) THEN ls ELSE << l >> \o ls

\* an array instead of a Set: the same function is kept twice
SetAddAgain(ls, l) == Append(ls, l)

\* listeners.add(listener): a Set keeps one entry per function, at its place
SetAdd(ls, l) == IF l \in Range(ls) THEN ls ELSE Append(ls, l)

\* the place of l in the Set, 0 when it is not in it
IndexOf(ls, l) ==
  IF l \in Range(ls) THEN CHOOSE j \in DOMAIN ls : ls[j] = l ELSE 0

\* listeners.delete(listener)
SetDelete(ls, l) ==
  LET p == IndexOf(ls, l)
  IN IF p = 0 THEN ls
     ELSE [j \in 1..(Len(ls) - 1) |-> IF j < p THEN ls[j] ELSE ls[j + 1]]

\* a forEach that does not notice the deletion of an entry it has passed
PassedUnadjusted(i, p) == i

\* a forEach in progress that has passed i entries, after the entry at
\* place p (0: none) was deleted: a passed entry less, when it was one
PassedAfterDelete(i, p) == IF p > 0 /\ p <= i THEN i - 1 ELSE i

\* subscribe(listener) (part_000:250-255): returns a new closure; n bounds
\* the calls
SubscribeWithin(l, n) ==
  /\ CanCall
  /\ Len(closures) < n
  /\ listeners' = SetAdd(listeners, l)
  /\ closures' = Append([c \in DOMAIN closures |->
                           IF closures[c].l = l /\ closures[c].called
                           THEN [closures[c] EXCEPT !.resub = TRUE]
                           ELSE closures[c]],
                        [l |-> l, called |-> FALSE, resub |-> FALSE])
  /\ ev' = [op |-> "sub", l |-> l, registered |-> listeners]
  /\ heap' = Collect(heap, Live(state, initialState, stack, ev'))
  /\ UNCHANGED <<phase, state, initialState, apiSetState, stack,
                 mws, captured, initCalls,
                 handleVars, thrown, views, persistVars>>

Subscribe(l) == SubscribeWithin(l, MaxSubs)

\* the closure () => listeners.delete(listener) is called (part_000:254)
Unsubscribe(c) ==
  /\ CanCall
  /\ c \in DOMAIN closures
  /\ LET l == closures[c].l
         p == IndexOf(listeners, l)
     IN /\ listeners' = SetDelete(listeners, l)
        /\ stack' = [j \in DOMAIN stack |->
                       IF stack[j].k = "notify"
                       THEN [stack[j] EXCEPT !.i = PassedAfterDelete(@, p),
                                             !.unsub = TRUE]
                       ELSE stack[j]]
        /\ closures' = [closures EXCEPT ![c] =
                          [l |-> l, called |-> TRUE, resub |-> FALSE]]
        /\ ev' = [op |-> "unsub", c |-> c, l |-> l, registered |-> listeners,
                  called |-> closures[c].called, resub |-> closures[c].resub]
        /\ views' = [views EXCEPT ![l] = "none"]
  /\ heap' = Collect(heap, Live(state, initialState, stack', ev'))
  /\ UNCHANGED <<phase, state, initialState, apiSetState,
                 mws, captured, initCalls,
                 handleVars, thrown, persistVars>>

(* ------------------------------- reading ------------------------------- *)
\* the application or a listener calls store.getState() (part_000:243)
CallGetState ==
  /\ AtTopLevel \/ InListener
  /\ ev' = [op |-> "get", ret |-> GetState]
  /\ heap' = Collect(heap, Live(state, initialState, stack, ev'))
  /\ UNCHANGED <<phase, state, initialState, listeners, apiSetState, stack,
                 closures, mws, captured, initCalls, handleVars, thrown, views,
                 persistVars>>

\* the application or a listener calls store.getInitialState()
\* (part_000:246-247)
CallGetInitialState ==
  /\ AtTopLevel \/ InListener
  /\ ev' = [op |-> "getInitial", ret |-> GetInitialState]
  /\ heap' = Collect(heap, Live(state, initialState, stack, ev'))
  /\ UNCHANGED <<phase, state, initialState, listeners, apiSetState, stack,
                 closures, mws, captured, initCalls, handleVars, thrown, views,
                 persistVars>>

\* the selectors components pass to the hook: none, s => s.a, s => s.n
Selectors == {"omitted", "a", "n"}

\* selector = identity when none is given (part_000:75); a selector reading a
\* field the state does not have yields undefined
Select(sel, v, h) ==
  IF sel = "omitted" THEN v
  ELSE IF sel \in DOMAIN FieldsIn(h, v) THEN FieldsIn(h, v)[sel] ELSE Undef

\* () => selector(api.getState()) (part_000:83)
GetSnapshot(sel) == Select(sel, GetState, heap)

\* the client snapshot given as server snapshot too
GetServerSnapshotCurrent(sel) == Select(sel, GetState, heap)

\* () => selector(api.getInitialState()) (part_000:84)
GetServerSnapshot(sel) == Select(sel, GetInitialState, heap)

\* a component renders with useStore(api, selector), or with the bound hook
\* of create, useBoundStore(selector) (part_000:97): useSyncExternalStore
\* returns what getServerSnapshot gives when rendering on the server or
\* hydrating, and what getSnapshot gives otherwise (part_000:81-88)
UseStore(sel, server) ==
  /\ AtTopLevel \/ InListener
  /\ ev' = [op |-> "render", sel |-> sel, server |-> server,
            slice |-> IF server THEN GetServerSnapshot(sel)
                      ELSE GetSnapshot(sel)]
  /\ heap' = Collect(heap, Live(state, initialState, stack, ev'))
  /\ UNCHANGED <<phase, state, initialState, listeners, apiSetState, stack,
                 closures, mws, captured, initCalls, handleVars, thrown, views,
                 persistVars>>

(* ----------------------------- construction ---------------------------- *)
\* createStore(createState): api is built (part_000:258) and createState is
\* called with (setState, getState, api) (part_000:262)
CreateStore ==
  /\ phase = "new"
  /\ phase' = "constructing"
  /\ initCalls' = initCalls + 1
  /\ stack' = << [k |-> "create", todo |-> mws, set |-> CoreSetState] >>
  /\ captured' = IF mws = << >> THEN CoreSetState ELSE captured
  /\ ev' = [op |-> "create", set |-> CoreSetState]
  /\ UNCHANGED <<state, initialState, listeners, heap, apiSetState,
                 closures, mws,
                 handleVars, thrown, views, persistVars>>

\* a middleware's initializer (set, get, store) => { store.setState = wrapper
\* around set; return initializer(store.setState, get, store) }; it also
\* wraps store.subscribe and adds a property of its own to store
RunMiddleware ==
  /\ phase = "constructing"
  /\ stack # << >>
  /\ Top.k = "create"
  /\ Top.todo # << >>
  /\ LET wrapped == << Head(Top.todo) >> \o Top.set
     IN /\ apiSetState' = wrapped
        /\ apiSubscribe' = << Head(Top.todo) >> \o apiSubscribe
        /\ apiCaps' = apiCaps \cup {Head(Top.todo)}
        /\ stack' = [stack EXCEPT ![Len(stack)] =
                       [k |-> "create", todo |-> Tail(Top.todo), set |-> wrapped]]
        /\ captured' = IF Tail(Top.todo) = << >> THEN wrapped ELSE captured
        /\ ev' = [op |-> "middleware", layer |-> Head(Top.todo)]
  /\ UNCHANGED <<phase, state, initialState, listeners, heap, closures, mws,
                 initCalls, thrown, views, persistVars>>

\* createState is called once for state and once more for initialState
InitializerReturnTwice ==
  /\ InInitializer
  /\ Cardinality(FreeSlots(HeapNow)) >= 2
  /\ LET first == New(HeapNow, InitFields)
         second == New(first.heap, InitFields)
     IN /\ state' = first.ref
        /\ initialState' = second.ref
        /\ stack' = << >>
        /\ ev' = [op |-> "created", ret |-> first.ref, retF |-> InitFields,
                  before |-> state]
        /\ heap' = Collect(second.heap,
                           Live(state', initialState', stack', ev'))
  /\ phase' = "ready"
  /\ initCalls' = initCalls + 1
  /\ views' = Outdated(views)
  /\ UNCHANGED <<listeners, apiSetState, closures, mws, captured,
                 handleVars, thrown, persistVars>>

\* state ??= createState(...): what the initializer set is kept
InitializerReturnKept ==
  /\ InInitializer
  /\ LET made == New(HeapNow, InitFields)
     IN /\ state' = IF state = Undef THEN made.ref ELSE state
        /\ initialState' = made.ref
        /\ stack' = << >>
        /\ ev' = [op |-> "created", ret |-> made.ref, retF |-> InitFields,
                  before |-> state]
        /\ heap' = Collect(made.heap, Live(state', initialState', stack', ev'))
  /\ phase' = "ready"
  /\ views' = views
  /\ UNCHANGED <<listeners, apiSetState, closures, mws, captured, initCalls,
                 handleVars, thrown, persistVars>>

\* the innermost initializer returns its object literal and
\* const initialState = (state = createState(...)) is done (part_000:262);
\* createStoreImpl returns api
InitializerReturn ==
  /\ InInitializer
  /\ LET made == New(HeapNow, InitFields)
     IN /\ state' = made.ref
        /\ initialState' = made.ref
        /\ stack' = << >>
        /\ ev' = [op |-> "created", ret |-> made.ref, retF |-> InitFields,
                  before |-> state]
        /\ heap' = Collect(made.heap, Live(state', initialState', stack', ev'))
  /\ phase' = "ready"
  /\ views' = Outdated(views)
  /\ UNCHANGED <<listeners, apiSetState, closures, mws, captured, initCalls,
                 handleVars, thrown, persistVars>>

\* try { initialState = state = createState(...) } catch {}; return api
InitializerThrowCaught ==
  /\ phase = "constructing"
  /\ stack # << >>
  /\ Top.k = "create"
  /\ stack' = << >>
  /\ phase' = "ready"
  /\ ev' = [op |-> "initthrew", todo |-> Top.todo]
  /\ heap' = Collect(heap, Live(state, initialState, stack', ev'))
  /\ UNCHANGED <<state, initialState, listeners, apiSetState, closures, mws,
                 captured, initCalls, handleVars, thrown, views, persistVars>>

\* an initializer throws (a middleware's, or the innermost one): a
\* middleware returns initializer(...) without catching, and createStoreImpl
\* calls createState without catching (part_000:262), so the assignment of
\* state and initialState and return api are not reached
InitializerThrow ==
  /\ phase = "constructing"
  /\ stack # << >>
  /\ Top.k = "create"
  /\ stack' = << >>
  /\ phase' = "failed"
  /\ ev' = [op |-> "initthrew", todo |-> Top.todo]
  /\ heap' = Collect(heap, Live(state, initialState, stack', ev'))
  /\ UNCHANGED <<state, initialState, listeners, apiSetState, closures, mws,
                 captured, initCalls, handleVars, thrown, views, persistVars>>

(* ----------------------------- persistence ----------------------------- *)
\* The persist middleware, configured with a name, a version, a partialize
\* and a migrate function and the default merge.  Storage holds one item
\* under the name: { state, version }.  A read of storage is answered later
\* (a synchronous result is handled as an already resolved deferred one).
CurrentVersion == 1

\* storage.getItem failed, or what it returned could not be parsed
ReadError == [item |-> "error"]

Envelope(f, v) == [item |-> "value", state |-> f, version |-> v]

\* what storage may hold when the store is created
StoredItems ==
  {NoItem, Envelope([a |-> Num(1)], CurrentVersion), Envelope([a |-> Num(1)], 0)}

\* partialize: (state) => ({ a: state.a })
Partialize(f) == [k \in DOMAIN f \cap {"a"} |-> f[k]]

\* migrate: (persisted, version) => ({ ...persisted, m: 1 })
Migrate(f, v) == Overwrite(f, [m |-> Num(1)])

\* the persisted value of an item, migrated when its version is not the
\* configured one
Migrated(item) ==
  IF item.version # CurrentVersion
  THEN Migrate(item.state, item.version)
  ELSE item.state

\* { ...persisted, ...current }: the fields of the current state win
MergeCurrentWins(persisted, current) == Overwrite(persisted, current)

\* the default merge: { ...current, ...persisted }
DefaultMerge(persisted, current) == Overwrite(current, persisted)

\* the merge is given the state the store was constructed with
MergeBaseInitial == GetInitialState

\* the merge is given getState() as it is when the read is answered
MergeBase == GetState

\* no attempt is taken for stale
LatestAlways(id) == TRUE

\* the attempt counter: an attempt may commit when none was started after it
Latest(id) == id = attemptCounter

\* the whole state is written under version 0
ItemUnprojected(f) == Envelope(f, 0)

\* what is written for a state with fields f
ItemToWrite(f) == Envelope(Partialize(f), CurrentVersion)

\* a hydration attempt starts: the counter goes up, storage is read (the
\* answer, `read`, comes later), the attempts in flight are superseded
BeginAttempt(read) ==
  /\ read \in {storage, ReadError}
  /\ attemptCounter' = attemptCounter + 1
  /\ attempts' = attempts \cup {[id |-> attemptCounter + 1, item |-> read]}
  /\ hydration' = [status |-> "InProgress",
                   superseded |-> hydration.superseded
                                    \cup {a.id : a \in attempts}]
  /\ UNCHANGED <<storage, finished, skipHydration>>

\* a failing read makes the construction of the store fail
AutoHydrateThrowing(read) ==
  /\ InInitializer
  /\ ~skipHydration
  /\ attemptCounter = 0
  /\ BeginAttempt(read)
  /\ phase' = IF read = ReadError THEN "failed" ELSE phase
  /\ stack' = IF read = ReadError THEN << >> ELSE stack
  /\ ev' = [op |-> "hydrate", id |-> attemptCounter + 1, auto |-> TRUE,
            failed |-> read = ReadError]
  /\ UNCHANGED <<state, initialState, listeners, heap, apiSetState,
                 closures, mws, captured, initCalls, handleVars, thrown, views>>

\* construction starts the first attempt, unless skipHydration is set
AutoHydrate(read) ==
  /\ InInitializer
  /\ ~skipHydration
  /\ attemptCounter = 0
  /\ BeginAttempt(read)
  /\ ev' = [op |-> "hydrate", id |-> attemptCounter + 1, auto |-> TRUE,
            failed |-> read = ReadError]
  /\ UNCHANGED <<phase, state, initialState, listeners, heap, apiSetState,
                 stack, closures, mws, captured, initCalls, handleVars,
                 thrown, views>>

\* the application calls store.persist.rehydrate()
Rehydrate(read) ==
  /\ AtTopLevel
  /\ attemptCounter < MaxAttempts
  /\ BeginAttempt(read)
  /\ ev' = [op |-> "hydrate", id |-> attemptCounter + 1, auto |-> FALSE,
            failed |-> read = ReadError]
  /\ heap' = Collect(heap, Live(state, initialState, stack, ev'))
  /\ UNCHANGED <<phase, state, initialState, listeners, apiSetState,
                 stack, closures, mws, captured, initCalls, handleVars,
                 thrown, views>>

\* why the attempt fails, "none" when it does not
HydrationError(item, migrateOk, mergeOk) ==
  IF item = ReadError THEN "read"
  ELSE IF item = NoItem THEN "none"
  ELSE IF item.version # CurrentVersion /\ ~migrateOk THEN "migrate"
  ELSE IF ~mergeOk THEN "merge"
  ELSE "none"

\* the read of attempt att is answered.  A stale attempt is dropped.  The
\* latest one migrates and merges the persisted value and sets the result
\* with the core's setState(merged, true), then writes it back; an error of
\* the read, of migrate or of merge ends it without touching the state.
\* Either way the hydration-finished callbacks are called.
ResolveHydration(att, migrateOk, mergeOk, writeOk) ==
  /\ AtTopLevel
  /\ att \in attempts
  /\ attempts' = attempts \ {att}
  /\ UNCHANGED <<attemptCounter, skipHydration>>
  /\ LET why == HydrationError(att.item, migrateOk, mergeOk)
     IN IF ~Latest(att.id)
        THEN /\ ev' = [op |-> "stale", id |-> att.id, item |-> att.item,
                       before |-> state, beforeF |-> Fields(state),
                       storage |-> storage, finished |-> finished]
             /\ heap' = Collect(heap, Live(state, initialState, stack, ev'))
             /\ UNCHANGED <<storeVars, storage, hydration, finished>>
        ELSE IF why # "none" \/ att.item = NoItem
        THEN /\ ev' = [op |-> "hydrated", id |-> att.id, error |-> why,
                       before |-> state, beforeF |-> Fields(state),
                       storage |-> storage]
             /\ heap' = Collect(heap, Live(state, initialState, stack, ev'))
             /\ hydration' = [hydration EXCEPT !.status = "Completed"]
             /\ finished' = Append(finished,
                                   [id |-> att.id, error |-> why,
                                    data |-> NoFields, merged |-> FALSE,
                                    wrote |-> FALSE])
             /\ UNCHANGED <<storeVars, storage>>
        ELSE LET data == Migrated(att.item)
                 merged == DefaultMerge(data, Fields(MergeBase))
             IN /\ SetStateVia(CoreSetState, "hydrate",
                               [kind |-> "lit", f |-> merged], "true")
                /\ storage' = IF writeOk THEN ItemToWrite(merged) ELSE storage
                /\ hydration' = [hydration EXCEPT !.status = "Completed"]
                /\ finished' = Append(finished,
                                      [id |-> att.id, error |-> "none",
                                       data |-> data, merged |-> TRUE,
                                       wrote |-> writeOk])

\* the wrapper persist puts around set: (...args) => { set(...args);
\* setItem() }: set has returned, the current state is written (the write
\* fails when ok is FALSE, and the error is swallowed)
PersistSetItem(ok) ==
  /\ stack # << >>
  /\ Top.k = "wrap"
  /\ Top.layer = "persist"
  /\ stack' = [Pop EXCEPT ![CallIdx] = [@ EXCEPT !.done = Append(@, Top.layer)]]
  /\ storage' = IF ok THEN ItemToWrite(Fields(GetState)) ELSE storage
  /\ ev' = [op |-> "write", ok |-> ok, acc |-> stack[CallIdx].acc,
            via |-> stack[CallIdx].via, after |-> stack[CallIdx].after,
            afterF |-> Fields(stack[CallIdx].after), storage |-> storage]
  /\ heap' = Collect(heap, Live(state, initialState, stack', ev'))
  /\ UNCHANGED <<phase, state, initialState, listeners, apiSetState,
                 closures, mws, captured, initCalls, handleVars, thrown, views,
                 attempts, attemptCounter, hydration, finished,
                 skipHydration>>

(* --------------------------- the specifications ------------------------ *)
HeapSlots == Len(NestHeap) + 1 + MaxAlloc

\* no hydration attempt was started
NotHydrating ==
  /\ attempts = {}
  /\ attemptCounter = 0
  /\ hydration = [status |-> "NotStarted", superseded |-> {}]
  /\ finished = << >>

\* createStore is about to be called with the middlewares m
InitStore(m) ==
  /\ phase = "new"
  /\ state = Undef
  /\ initialState = Undef
  /\ listeners = << >>
  /\ heap = [i \in 1..HeapSlots |->
               IF i \in DOMAIN NestHeap THEN NestHeap[i] ELSE Free]
  /\ apiSetState = CoreSetState
  /\ stack = << >>
  /\ closures = << >>
  /\ mws = m
  /\ captured = CoreSetState
  /\ initCalls = 0
  /\ ev = NoEv
  /\ apiSubscribe = << >>
  /\ apiCaps = {}
  /\ thrown = << >>
  /\ views = [l \in Listeners |-> "none"]

\* a store that does not use persist
InitWith(m) ==
  /\ InitStore(m)
  /\ storage = NoItem
  /\ NotHydrating
  /\ skipHydration = TRUE

\* the partials the application and the listeners pass
ListenerInputs ==
  {[kind |-> "cur"], [kind |-> "fnSelf"],
   [kind |-> "lit", f |-> [a |-> Num(1)]]}

\* the partials the application passes
FewInputs ==
  {[kind |-> "cur"], [kind |-> "lit", f |-> NoFields],
   [kind |-> "lit", f |-> [a |-> Num(1)]]}

\* The store and its listeners: a store without middleware; the application
\* and the listeners set the state, subscribe each listener function once
\* and unsubscribe; listeners re-enter setState and throw.
Init == InitWith(<< >>)

NeverSubscribed(l) == \A c \in DOMAIN closures : closures[c].l # l

Next ==
  \/ CreateStore
  \/ InitializerReturn
  \/ \E in \in ListenerInputs, r \in Replace : SetState(in, r)
  \/ NotifyStep
  \/ NotifyDone
  \/ ListenerReturn
  \/ ListenerThrow
  \/ Return
  \/ \E l \in Listeners : phase = "ready" /\ NeverSubscribed(l) /\ Subscribe(l)
  \/ \E c \in 1..MaxSubs : Unsubscribe(c)

Spec == Init /\ [][Next]_vars

\* The registry: the application and the listeners subscribe and
\* unsubscribe in every order, the same function again and again; the
\* application sets the state and the listeners are notified.
NextSub ==
  \/ CreateStore
  \/ InitializerReturn
  \/ \E in \in FewInputs, r \in {"omitted", "true"} : AtTopLevel /\ SetState(in, r)
  \/ NotifyStep
  \/ NotifyDone
  \/ ListenerReturn
  \/ Return
  \/ \E l \in Listeners : phase = "ready" /\ Subscribe(l)
  \/ \E c \in 1..MaxSubs : Unsubscribe(c)

SpecSub == Init /\ [][NextSub]_vars

\* The state cell: a store without middleware and without listeners, set by
\* the application with every kind of partial and every replace flag.
NextCell ==
  \/ CreateStore
  \/ InitializerReturn
  \/ \E in \in Inputs, r \in Replace : AtTopLevel /\ SetState(in, r)
  \/ CallAction
  \/ NotifyDone
  \/ Return

SpecCell == Init /\ [][NextCell]_vars

\* Construction and middleware: createStore(outer(inner(init))), the
\* initializer may set the state and subscribe before it returns, the
\* application sets the state through the handle and through the action.
InitMw == \E m \in Middlewares : InitWith(m)

NextMw ==
  \/ CreateStore
  \/ RunMiddleware
  \/ InitializerReturn
  \/ InitializerThrow
  \/ \E in \in FewInputs, r \in Replace : AtTopLevel /\ SetState(in, r)
  \/ CallAction
  \/ NotifyStep
  \/ NotifyDone
  \/ ListenerReturn
  \/ WrapHook
  \/ Return
  \/ phase = "ready" /\ listeners = << >> /\ Subscribe("l1")

SpecMw == InitMw /\ [][NextMw]_vars

\* Reading: components render through the hook, which subscribes React's
\* listener on mount and unsubscribes it on unmount (each listener function
\* is subscribed once); the application and the listeners read the store,
\* subscribe and unsubscribe; the application sets the state.
ReadInputs ==
  {[kind |-> "lit", f |-> NoFields], [kind |-> "lit", f |-> [a |-> Num(1)]]}

NextRead ==
  \/ CreateStore
  \/ InitializerReturn
  \/ \E in \in ReadInputs, r \in {"omitted", "true"} :
       AtTopLevel /\ SetState(in, r)
  \/ NotifyStep
  \/ NotifyDone
  \/ ListenerReturn
  \/ Return
  \/ \E l \in Listeners : phase = "ready" /\ NeverSubscribed(l) /\ Subscribe(l)
  \/ \E c \in 1..MaxSubs : Unsubscribe(c)
  \/ CallGetState
  \/ CallGetInitialState
  \/ \E sel \in Selectors, server \in BOOLEAN : UseStore(sel, server)

SpecRead == Init /\ [][NextRead]_vars

\* The order of the registry: the application subscribes, unsubscribes and
\* subscribes again between the notification passes, and sets the state.
NextOrder ==
  \/ CreateStore
  \/ InitializerReturn
  \/ AtTopLevel /\ SetState([kind |-> "lit", f |-> [a |-> Num(1)]], "true")
  \/ NotifyStep
  \/ NotifyDone
  \/ ListenerReturn
  \/ Return
  \/ \E l \in Listeners : AtTopLevel /\ SubscribeWithin(l, MaxResubs)
  \/ \E c \in 1..MaxResubs : AtTopLevel /\ Unsubscribe(c)

SpecOrder == Init /\ [][NextOrder]_vars

\* The registry grows during a pass: the application subscribes l1 and sets
\* the state while l2 is unknown to the store; the listeners subscribe l2
\* and re-enter setState.  What is called runs to its end, and every
\* listener returns, at whatever depth of the stack it was called.
GrowInputs ==
  {[kind |-> "cur"], [kind |-> "lit", f |-> [a |-> Num(1)]]}

\* where the stack has a listener on top: a call, its pass and the listener
\* (three frames), once per accepted setState in progress, each of which
\* holds an object of its own
ListenerDepths == {3 * k : k \in 1..MaxAlloc}

NextGrow ==
  \/ CreateStore
  \/ InitializerReturn
  \/ \E in \in GrowInputs :
       AtTopLevel /\ NeverSubscribed("l2") /\ SetState(in, "true")
  \/ \E in \in GrowInputs : InListener /\ SetState(in, "true")
  \/ NotifyStep
  \/ NotifyDone
  \/ ListenerReturn
  \/ Return
  \/ AtTopLevel /\ NeverSubscribed("l1") /\ Subscribe("l1")
  \/ InListener /\ NeverSubscribed("l2") /\ Subscribe("l2")

SpecGrow ==
  /\ Init
  /\ [][NextGrow]_vars
  /\ WF_vars(NotifyStep)
  /\ WF_vars(NotifyDone)
  /\ WF_vars(Return)
  /\ \A d \in ListenerDepths : SF_vars(Len(stack) = d /\ ListenerReturn)

\* Construction with side effects: the initializer subscribes listeners and
\* calls set before it returns; after that the application subscribes and
\* sets the state, with a new object or with the current one; the
\* listeners re-enter setState and unsubscribe.
BuildInputs ==
  {[kind |-> "cur"], [kind |-> "lit", f |-> [a |-> Num(1)]]}

NextBuild ==
  \/ CreateStore
  \/ \E l \in Listeners : InInitializer /\ NeverSubscribed(l) /\ Subscribe(l)
  \/ \E in \in BuildInputs, r \in {"omitted", "true"} : InitializerSet(in, r)
  \/ InitializerReturn
  \/ \E l \in Listeners : AtTopLevel /\ NeverSubscribed(l) /\ Subscribe(l)
  \/ \E in \in BuildInputs : AtTopLevel /\ SetState(in, "true")
  \/ InListener /\ SetState([kind |-> "lit", f |-> [a |-> Num(1)]], "true")
  \/ NotifyStep
  \/ NotifyDone
  \/ ListenerReturn
  \/ Return
  \/ \E c \in 1..MaxSubs : Unsubscribe(c)

SpecBuild == Init /\ [][NextBuild]_vars

\* Persistence: createStore(persist(init, options)); storage holds nothing,
\* an item of the configured version or an older one; the application sets
\* the state and calls rehydrate(); reads are answered in any order, reads,
\* writes, migrate and merge may fail.
PersistInputs ==
  {[kind |-> "lit", f |-> [a |-> Num(0), b |-> Num(0)]]}

InitPersist ==
  /\ InitStore(<< "persist" >>)
  /\ storage \in StoredItems
  /\ NotHydrating
  /\ skipHydration \in BOOLEAN

NextPersist ==
  \/ CreateStore
  \/ RunMiddleware
  \/ \E read \in {storage, ReadError} : AutoHydrate(read)
  \/ (skipHydration \/ attemptCounter > 0) /\ InitializerReturn
  \/ \E in \in PersistInputs : AtTopLevel /\ SetState(in, "omitted")
  \/ NotifyDone
  \/ \E ok \in BOOLEAN : PersistSetItem(ok)
  \/ Return
  \/ \E read \in {storage, ReadError} : Rehydrate(read)
  \/ \E att \in attempts, migrateOk, mergeOk, writeOk \in BOOLEAN :
       ResolveHydration(att, migrateOk, mergeOk, writeOk)

SpecPersist == InitPersist /\ [][NextPersist]_vars

(* ------------------------------- claims -------------------------------- *)
\* the listeners being called or waiting to be called by a pass in progress
Notifying == stack # << >> /\ Top.k = "notify"

\* C1: a setState whose candidate (the value given, or what the updater
\* returns) is identical to the current snapshot leaves getState() as it was
\* and starts no notification, whatever the replace flag; and every listener
\* call belongs to a mutation whose snapshot differs from the previous one.
C1_NoOpSetState ==
  /\ (ev.op = "set" /\ ev.same) =>
        /\ GetState = ev.before
        /\ Fields(GetState) = ev.beforeF
        /\ ~Notifying
  /\ ev.op = "invoke" => ev.mnext # ev.mprev

\* a no-op setState(getState(), true) with both listeners subscribed
C1_Witness ==
  /\ ev.op = "set"
  /\ ev.same
  /\ ev.replace = "true"
  /\ Len(listeners) = 2

\* C2: for an object snapshot S and an object candidate C that is not S,
\* setState(C) and setState(C, false) give the fields of S overwritten field
\* by field by those of C (a nested object is taken from C as it is, and no
\* object that existed is written), and setState(C, true) gives C itself.
C2_ShallowMerge ==
  (ev.op = "set" /\ ev.acc /\ IsObj(ev.before) /\ IsObj(ev.cand)) =>
    IF ev.replace = "true"
    THEN /\ GetState = ev.cand
         /\ Fields(GetState) = ev.candF
    ELSE /\ DOMAIN Fields(GetState) = DOMAIN ev.beforeF \cup DOMAIN ev.candF
         /\ \A k \in DOMAIN ev.candF : Fields(GetState)[k] = ev.candF[k]
         /\ \A k \in DOMAIN ev.beforeF \ DOMAIN ev.candF :
              Fields(GetState)[k] = ev.beforeF[k]
         /\ Fields(ev.before) = ev.beforeF
         /\ Fields(ev.cand) = ev.candF
         /\ \A i \in DOMAIN NestHeap : heap[i] = NestHeap[i]

\* {a: 0, b: 2, n: A} merged with {a: 1, n: B}: a and n from the candidate,
\* b kept, and n is the candidate's nested object itself
C2_Witness ==
  /\ ev.op = "set"
  /\ ev.replace = "omitted"
  /\ ev.acc
  /\ IsObj(ev.before)
  /\ ev.beforeF.a = Num(0) /\ ev.beforeF.b = Num(2) /\ ev.beforeF.n = NestA
  /\ ev.candF = [a |-> Num(1), n |-> NestB]
  /\ Fields(GetState).a = Num(1)
  /\ Fields(GetState).b = Num(2)
  /\ Fields(GetState).n = NestB

\* C3: an accepted setState whose replace flag is true, or whose candidate is
\* not an object (a number, null), makes the candidate the new snapshot -
\* for every value of the replace argument when the candidate is no object.
C3_DirectReplace ==
  (ev.op = "set" /\ ev.acc /\ (ev.replace = "true" \/ ~IsObj(ev.cand))) =>
    GetState = ev.cand

\* C4: once the store is constructed no step changes what getInitialState()
\* returns: the same value, with the same fields, and the nested objects it
\* refers to keep theirs.
C4_InitialStateFixed ==
  [][phase = "ready" =>
       /\ GetInitialState' = GetInitialState
       /\ FieldsIn(heap', GetInitialState') = FieldsIn(heap, GetInitialState)
       /\ \A i \in DOMAIN NestHeap : heap'[i] = heap[i]]_vars

\* the action's updater was merged into the state, which is no longer the
\* initial one
C4_Witness ==
  /\ phase = "ready"
  /\ ev.op = "set"
  /\ ev.in.kind = "fnBump"
  /\ ev.acc
  /\ GetState # GetInitialState
  /\ Fields(GetState).a # Fields(GetInitialState).a

\* C5: when the notification pass of an accepted mutation is through (the
\* core setState is about to return), every listener registered then has
\* been called in that pass; an accepted setState always starts a pass, also
\* when the merged snapshot has the same fields as the previous one; a
\* setState that is not accepted leaves the snapshot and starts none.
C5_NotifyAll ==
  /\ ev.op = "notified" => Range(ev.registered) \subseteq ev.seen
  /\ (ev.op = "set" /\ ev.acc) =>
        /\ Notifying
        /\ Top.mprev = ev.before
        /\ Top.mnext = GetState
        /\ GetState # ev.before
  /\ (ev.op = "set" /\ ~ev.acc) => (~Notifying /\ GetState = ev.before)

\* both listeners were called for a merge that changed no field
C5_Witness ==
  /\ ev.op = "notified"
  /\ ev.prevF = ev.nextF
  /\ ev.seen = Listeners
  /\ Range(ev.registered) = Listeners

\* C6 as stated: every listener call gets, as previous, the snapshot that
\* was current right before the mutation being notified and, as next, the
\* snapshot that this mutation produced, also after an earlier listener of
\* the pass re-entered setState.
C6_CoherentPair ==
  ev.op = "invoke" => (ev.prev = ev.mprev /\ ev.next = ev.mnext)

\* C6 as amended: previous is the snapshot that was current right before the
\* mutation being notified; next is the snapshot that is current when the
\* listener is called, which is the one this mutation produced unless
\* setState was re-entered and accepted during the pass.
C6_PairAsCalled ==
  ev.op = "invoke" =>
    /\ ev.prev = ev.mprev
    /\ ev.next = GetState
    /\ ~ev.reent => ev.next = ev.mnext

\* a listener called after an earlier one re-entered setState: its next is
\* not the snapshot of the mutation being notified
C6_Witness ==
  /\ ev.op = "invoke"
  /\ ev.reent
  /\ ev.next # ev.mnext
  /\ ev.prev = ev.mprev

\* C7: a listener may call an unsubscribe closure during a pass: the call
\* always goes through, the pass still calls every listener that stays
\* registered, and a listener is only ever called while it is registered.
C7_UnsubscribeInPass ==
  /\ (ev.op = "notified" /\ ev.unsub) => Range(ev.registered) \subseteq ev.seen
  /\ ev.op = "invoke" => ev.l \in Range(ev.registered)
  /\ (ev.op = "unsub" /\ InListener) => ev.l \notin Range(listeners)
  /\ InListener => \A c \in DOMAIN closures : ENABLED Unsubscribe(c)

\* l1 unsubscribed during the pass (it was called, it is no longer
\* registered) and l2, still registered, was called after that
C7_Witness ==
  /\ ev.op = "notified"
  /\ ev.unsub
  /\ ev.seen = Listeners
  /\ ev.registered = << "l2" >>

\* C8 as stated: a second or later call of an unsubscribe closure leaves
\* the registry unchanged, also when the same listener function has been
\* subscribed again after the first call.
C8_SecondCallNoOp ==
  (ev.op = "unsub" /\ ev.called) => listeners = ev.registered

\* C8 as amended: a call of the closure removes its listener function from
\* the registry and nothing else; a second or later call leaves the registry
\* unchanged unless that function was subscribed again since the closure's
\* previous call.
C8_Unsubscribe ==
  ev.op = "unsub" =>
    /\ listeners = SelectSeq(ev.registered, LAMBDA x : x # ev.l)
    /\ Cardinality({j \in DOMAIN ev.registered : ev.registered[j] = ev.l}) <= 1
    /\ (ev.called /\ ~ev.resub) => listeners = ev.registered

\* a second call of a closure, with another listener registered, after
\* which the registry is what it was
C8_Witness ==
  /\ ev.op = "unsub"
  /\ ev.called
  /\ ~ev.resub
  /\ ev.registered # << >>
  /\ listeners = ev.registered

\* C9: createState is called once, with the core setState at the bottom of
\* what the initializers receive; what the innermost initializer returns is
\* both getState() and getInitialState() when the store is returned; the
\* action of the initial state, called later, changes this store's snapshot
\* through the setState it captured and the listeners are notified.
C9_Construction ==
  /\ phase = "ready" => initCalls = 1
  /\ ev.op = "create" => (Top.set = CoreSetState /\ initCalls = 1)
  /\ ev.op = "created" =>
        /\ GetState = ev.ret
        /\ GetInitialState = ev.ret
        /\ Fields(GetState) = ev.retF
  /\ (ev.op = "set" /\ ev.via = "action") =>
        /\ ev.acc
        /\ GetState # ev.before
        /\ Fields(GetState).a = Num(1 - ev.beforeF.a.n)
        /\ Notifying
  /\ (ev.op = "notified" /\ ev.via = "action") =>
        Range(ev.registered) \subseteq ev.seen

\* the pass of a mutation made by the action has called the listener, in a
\* store built with middleware
C9_Witness ==
  /\ ev.op = "notified"
  /\ ev.via = "action"
  /\ ev.seen = {"l1"}
  /\ mws # << >>
  /\ GetState # GetInitialState

\* C10: a setState made through the handle of a store built as
\* outer(inner(core)) has run the hook of every layer when it returns, and
\* a hook runs after the core committed: what it reads with getState() is
\* the snapshot the core committed in this call.
C10_MiddlewareOrder ==
  /\ (ev.op = "returned" /\ ev.via = "handle") =>
        /\ Range(ev.done) = Range(mws)
        /\ Len(ev.done) = Len(mws)
  /\ (ev.op = "hook" /\ ev.acc /\ ~ev.reent) =>
        /\ ev.saw = ev.after
        /\ ev.saw = GetState
        /\ ~Notifying

\* an accepted setState through the handle of outer(inner(core)) returned
\* after both hooks ran
C10_Witness ==
  /\ ev.op = "returned"
  /\ ev.via = "handle"
  /\ ev.acc
  /\ mws = << "outer", "inner" >>
  /\ Range(ev.done) = {"outer", "inner"}

\* C11: the handle createStore returns is the object the initializers were
\* given as their third argument: what the middlewares of
\* outer(inner(init)) did to it during construction (each replaced setState
\* and subscribe by a wrapper of the one it found and added a property) is
\* on the handle the application holds, the last replacement outermost.
C11_HandleIsStoreArgument ==
  phase = "ready" =>
    /\ Handle.caps = Range(mws)
    /\ Len(Handle.setState) = Len(mws)
    /\ Len(Handle.subscribe) = Len(mws)
    /\ \A j \in DOMAIN mws :
          /\ Handle.setState[j] = mws[Len(mws) + 1 - j]
          /\ Handle.subscribe[j] = mws[Len(mws) + 1 - j]

\* the application has called setState on the handle of outer(inner(init))
\* and the call has run both wrappers
C11_Witness ==
  /\ phase = "ready"
  /\ mws = << "outer", "inner" >>
  /\ Handle.caps = {"outer", "inner"}
  /\ Handle.setState = << "inner", "outer" >>
  /\ ev.op = "returned"
  /\ ev.via = "handle"
  /\ Range(ev.done) = {"inner", "outer"}

\* C12: when a listener throws, the pass it was called by is over (the
\* listeners after it are not called for that mutation) and the setState
\* call of that pass is left with the error; the mutation stays committed:
\* getState() is its snapshot (or that of a later mutation made during the
\* pass); and a setState accepted after that starts a pass that calls every
\* registered listener.
C12_ListenerThrows ==
  /\ ev.op = "threw" =>
        /\ Len(stack) = ev.left - 1
        /\ \A j \in DOMAIN stack :
              stack[j].k = "notify" =>
                << stack[j].mprev, stack[j].mnext >> # << ev.mprev, ev.mnext >>
        /\ stack # << >> => Top.k = "listener"
        /\ ~ev.reent => GetState = ev.mnext
        /\ GetState # ev.mprev
        /\ thrown = << Range(ev.registered) \ ev.seen >>
  /\ (thrown # << >> /\ ev.op = "set" /\ ev.acc) => Notifying
  /\ (thrown # << >> /\ ev.op = "notified") =>
        Range(ev.registered) \subseteq ev.seen

\* l1 threw in a pass that therefore never called l2, and the pass of a
\* later setState has called both
C12_Witness ==
  /\ thrown = << {"l2"} >>
  /\ ev.op = "notified"
  /\ ~ev.reent
  /\ ev.seen = Listeners
  /\ Range(ev.registered) = Listeners
  /\ stack # << >>
  /\ Top.k = "call"
  /\ GetState = Top.after

\* C13: an error raised in an initializer of outer(inner(init)) leaves
\* createStore with the error: construction is over, initialState was never
\* assigned, no handle was returned (the store is never ready and no
\* operation of it can be called).
C13_InitializerThrows ==
  /\ ev.op = "initthrew" => phase = "failed"
  /\ phase = "failed" =>
        /\ stack = << >>
        /\ GetInitialState = Undef
        /\ listeners = << >>
        /\ ~ENABLED NextMw

\* the innermost initializer of outer(inner(init)) threw after both
\* middlewares had wrapped the store's setState
C13_Witness ==
  /\ ev.op = "initthrew"
  /\ ev.todo = << >>
  /\ mws = << "outer", "inner" >>
  /\ apiSetState = << "inner", "outer" >>
  /\ phase = "failed"

\* C14: a call of getState, getInitialState, subscribe or an unsubscribe
\* closure leaves the current and the initial snapshot as they are, objects
\* and fields, and calls no listener (no call is started and no pass in
\* progress calls one); getState returns the current snapshot and
\* getInitialState the initial one.
C14_ReadsChangeNothing ==
  [][ev'.op \in {"get", "getInitial", "sub", "unsub"} =>
       /\ state' = state
       /\ initialState' = initialState
       /\ FieldsIn(heap', state') = FieldsIn(heap, state)
       /\ FieldsIn(heap', initialState') = FieldsIn(heap, initialState)
       /\ Len(stack') = Len(stack)
       /\ \A j \in DOMAIN stack :
             /\ stack'[j].k = stack[j].k
             /\ stack[j].k = "notify" => stack'[j].seen = stack[j].seen
       /\ ev'.op = "get" => ev'.ret = state
       /\ ev'.op = "getInitial" => ev'.ret = initialState]_vars

\* getState() called by a listener during a pass, after the state was set:
\* it returns the current snapshot, which is not the initial one
C14_Witness ==
  /\ ev.op = "get"
  /\ InListener
  /\ ev.ret = state
  /\ state # initialState
  /\ Len(listeners) = 2

\* C15: rendering through useStore (or the bound hook of create) starts no
\* setState and changes nothing of the store: snapshot, initial snapshot,
\* listeners and calls in progress are as before; the value it yields is
\* the selector applied to the current snapshot, and to the initial
\* snapshot when the server snapshot is asked for.
C15_HookOnlyReads ==
  [][ev'.op = "render" =>
       /\ state' = state
       /\ initialState' = initialState
       /\ FieldsIn(heap', state') = FieldsIn(heap, state)
       /\ listeners' = listeners
       /\ stack' = stack
       /\ LET from == IF ev'.server THEN initialState ELSE state
          IN CASE ev'.sel = "omitted" -> ev'.slice = from
               [] ev'.sel = "a" ->
                    ev'.slice = (IF "a" \in DOMAIN heap[from.id]
                                 THEN heap[from.id].a ELSE Undef)
               [] ev'.sel = "n" ->
                    ev'.slice = (IF "n" \in DOMAIN heap[from.id]
                                 THEN heap[from.id].n ELSE Undef)]_vars

\* a server render with s => s.a after the state's a was set to 1: the
\* slice is the initial snapshot's 0
C15_Witness ==
  /\ ev.op = "render"
  /\ ev.server
  /\ ev.sel = "a"
  /\ ev.slice = Num(0)
  /\ "a" \in DOMAIN Fields(state)
  /\ Fields(state).a = Num(1)

\* the last call of the hydration-finished callbacks
LastFinished == finished[Len(finished)]

\* C16: an attempt that rehydrate() was called over while its read was in
\* flight never completes: when its read is answered it is dropped, and the
\* state, storage and the record of completions stay as they are; when no
\* read is in flight any more, the attempts that completed are those
\* nothing was started over, the last of them the latest attempt, and a
\* hydration that sets the state is the latest attempt's, with its data.
C16_LatestAttemptCommits ==
  /\ ev.op = "stale" =>
        /\ GetState = ev.before
        /\ Fields(GetState) = ev.beforeF
        /\ storage = ev.storage
        /\ finished = ev.finished
        /\ stack = << >>
  /\ \A j \in DOMAIN finished : finished[j].id \notin hydration.superseded
  /\ \A i, j \in DOMAIN finished : i < j => finished[i].id < finished[j].id
  /\ (attempts = {} /\ attemptCounter > 0) =>
        /\ Len(finished) = attemptCounter - Cardinality(hydration.superseded)
        /\ LastFinished.id = attemptCounter
  /\ (ev.op = "set" /\ ev.via = "hydrate") =>
        /\ LastFinished.id = attemptCounter
        /\ \A k \in DOMAIN LastFinished.data :
              Fields(GetState)[k] = LastFinished.data[k]

\* rehydrate() was called while the first read was in flight; the second
\* attempt was answered first and set a from its data; then the first read
\* was answered, with other data, and dropped
C16_Witness ==
  /\ ev.op = "stale"
  /\ ev.id = 1
  /\ ev.item # ReadError
  /\ ev.item # NoItem
  /\ attempts = {}
  /\ Len(finished) = 1
  /\ LastFinished.id = 2
  /\ LastFinished.merged
  /\ ev.item.state.a # LastFinished.data.a
  /\ Fields(GetState).a = LastFinished.data.a

\* C17: an attempt whose read, migrate or merge fails ends Completed with
\* the error given to the hydration-finished callbacks; the state, its
\* fields and storage are as before; the store is ready, no call is in
\* progress and nothing was thrown.  A read that fails in the attempt construction starts does
\* not make construction fail.
C17_HydrationErrors ==
  /\ phase # "failed"
  /\ (ev.op = "hydrate" /\ ev.auto) => phase = "constructing"
  /\ (ev.op = "hydrated" /\ ev.error # "none") =>
        /\ GetState = ev.before
        /\ Fields(GetState) = ev.beforeF
        /\ storage = ev.storage
        /\ hydration.status = "Completed"
        /\ LastFinished.id = ev.id
        /\ LastFinished.error = ev.error
        /\ ~LastFinished.merged
        /\ AtTopLevel
        /\ thrown = << >>

\* the read of the attempt construction started failed; the store was
\* constructed, the attempt completed with the error, and a setState made
\* after that was accepted
C17_Witness ==
  /\ ~skipHydration
  /\ attemptCounter = 1
  /\ finished # << >>
  /\ LastFinished.error = "read"
  /\ ev.op = "set"
  /\ ev.via = "handle"
  /\ ev.acc
  /\ GetState # GetInitialState

\* C18: a hydration that sets the state sets the persisted value (migrated
\* if need be) merged over the fields the state has when the read is
\* answered: the persisted fields come from storage, every other field
\* keeps the value it has then, whatever was set while the read was in
\* flight.
C18_MergeAtResolution ==
  (ev.op = "set" /\ ev.via = "hydrate") =>
    /\ GetState = ev.cand
    /\ DOMAIN Fields(GetState) = DOMAIN ev.beforeF \cup DOMAIN LastFinished.data
    /\ \A k \in DOMAIN LastFinished.data :
          Fields(GetState)[k] = LastFinished.data[k]
    /\ \A k \in DOMAIN ev.beforeF \ DOMAIN LastFinished.data :
          Fields(GetState)[k] = ev.beforeF[k]

\* b was set to 0 while the read of the attempt construction started was in
\* flight; the answer brought a = 1: the state has a = 1 and b = 0
C18_Witness ==
  /\ ~skipHydration
  /\ attemptCounter = 1
  /\ ev.op = "set"
  /\ ev.via = "hydrate"
  /\ ev.beforeF.a = Num(0)
  /\ ev.beforeF.b = Num(0)
  /\ Fields(GetInitialState).b = Num(2)
  /\ Fields(GetState).a = Num(1)
  /\ Fields(GetState).b = Num(0)

\* C19: a setState through the handle that was accepted has run the
\* wrapper's write when it returns; a write that succeeds leaves in storage
\* the projection of the current state under the configured version; one
\* that fails leaves storage as it was; either way the state is the one
\* the mutation committed and the call returns to the application, the
\* store ready for the next call.  A hydration that sets the state writes the same way.
C19_WriteAfterMutation ==
  /\ ev.op = "write" =>
        /\ ev.ok =>
              storage = [item |-> "value", state |-> [a |-> Fields(GetState).a],
                         version |-> CurrentVersion]
        /\ ~ev.ok => storage = ev.storage
        /\ GetState = ev.after
        /\ phase = "ready"
        /\ Top.k = "call"
        /\ Top.done = << "persist" >>
  /\ (ev.op = "returned" /\ ev.via = "handle") =>
        /\ ev.done = << "persist" >>
        /\ AtTopLevel
  /\ (ev.op = "set" /\ ev.via = "hydrate" /\ LastFinished.wrote) =>
        storage = [item |-> "value", state |-> [a |-> Fields(GetState).a],
                   version |-> CurrentVersion]

\* the write after an accepted setState failed: the state has the new a,
\* storage still holds the old one
C19_Witness ==
  /\ ev.op = "write"
  /\ ~ev.ok
  /\ ev.acc
  /\ storage # NoItem
  /\ storage.state.a # Fields(GetState).a
  /\ GetState = ev.after

\* C20: subscribe puts a function that is not registered at the end of the
\* registry and leaves the others in their order, unsubscribe takes one
\* out and leaves the others in their order, so a function unsubscribed and
\* subscribed again is last; a notification pass calls the registered
\* listeners in the order of the registry: when a listener is called, the
\* listeners called so far in the pass are those up to its place, and the
\* pass ends when all were called.
C20_ListenerOrder ==
  /\ \A i, j \in DOMAIN listeners : listeners[i] = listeners[j] => i = j
  /\ ev.op = "sub" =>
        listeners = IF ev.l \in Range(ev.registered)
                    THEN ev.registered
                    ELSE ev.registered \o << ev.l >>
  /\ ev.op = "unsub" =>
        listeners = SelectSeq(ev.registered, LAMBDA x : x # ev.l)
  /\ ev.op = "invoke" =>
        /\ listeners = ev.registered
        /\ stack[Len(stack) - 1].seen =
              {ev.registered[j] : j \in 1..IndexOf(ev.registered, ev.l)}
  /\ ev.op = "notified" => ev.seen = Range(ev.registered)

\* l1 was subscribed before l2, unsubscribed and subscribed again: a pass
\* has called l2 and now calls l1
C20_Witness ==
  /\ Len(closures) = 3
  /\ closures[1].l = "l1"
  /\ closures[1].called
  /\ closures[2].l = "l2"
  /\ closures[3].l = "l1"
  /\ ev.op = "invoke"
  /\ ev.l = "l1"
  /\ ev.registered = << "l2", "l1" >>
  /\ stack[Len(stack) - 1].seen = {"l1", "l2"}

NewInPass(l) ==
  /\ ev.op = "invoke"
  /\ ev.l = l
  /\ Len(stack) = 3

\* C22 as stated: a listener subscribed for the first time by a listener
\* during a pass is called in that pass after the listeners registered
\* before, with the snapshot the notified mutation produced as next and the
\* snapshot before that mutation as previous.
C22_MutationPair ==
  /\ NewInPass("l2") =>
        /\ "l1" \in stack[2].seen
        /\ ev.next = ev.mnext
        /\ ev.prev = ev.mprev
  /\ ev.op = "notified" => ev.seen = Range(ev.registered)

\* no pass in progress has reached the end of the registry
PassesOpen ==
  \A j \in DOMAIN stack : stack[j].k = "notify" => stack[j].i < Len(listeners)

\* what C22 says of every state
NewListenerCalled ==
  /\ (ev.op = "sub" /\ InListener /\ ev.l \notin Range(ev.registered)) =>
        /\ listeners = ev.registered \o << ev.l >>
        /\ PassesOpen
  /\ NewInPass("l2") =>
        /\ "l1" \in stack[2].seen
        /\ ev.prev = ev.mprev
        /\ ev.next = GetState
        /\ ~ev.reent => ev.next = ev.mnext
  /\ ev.op = "notified" => ev.seen = Range(ev.registered)

\* C22 as amended: a function a listener subscribes for the first time
\* during a pass goes to the end of the registry, past the place of every
\* pass in progress; that pass calls it after the listeners registered
\* before, with the snapshot before the notified mutation as previous and
\* the snapshot current at the call as next, which is the one the mutation
\* produced unless setState was re-entered and accepted since; a pass ends
\* only when every registered listener was called, and every call in
\* progress comes to its end.
C22_NewListenerInPass ==
  /\ []NewListenerCalled
  /\ (phase = "ready" /\ stack # << >>) ~> (stack = << >>)

\* l1, called by the pass of a mutation, subscribed l2 and re-entered
\* setState; the same pass now calls l2, with the latest snapshot as next
C22_Witness ==
  /\ NewInPass("l2")
  /\ stack[2].seen = {"l1", "l2"}
  /\ ev.reent
  /\ ev.next # ev.mnext
  /\ ev.next = GetState
  /\ ev.prev = ev.mprev

\* a setState call made by the application or by the initializer has
\* returned
OutermostReturned == ev.op = "returned" /\ (stack = << >> \/ InInitializer)

\* C23 as stated: when an outermost setState call returns, the next of the
\* last call of every registered listener is the store's state.
C23_NoStaleView ==
  OutermostReturned => \A l \in Range(listeners) : views[l] # "stale"

\* C23 as amended: when an outermost setState call that committed a
\* mutation returns, every registered listener was called and the next of
\* its last call is the store's state, also when listeners re-entered
\* setState; a call that committed nothing leaves a listener with another
\* next only when the state is the one the initializer's return value
\* replaced the state of construction with.
C23_ViewAfterCommit ==
  /\ (OutermostReturned /\ ev.acc) =>
        \A l \in Range(listeners) : views[l] = "current"
  /\ (OutermostReturned /\ ~ev.acc) =>
        \A l \in Range(listeners) :
          views[l] = "stale" => (phase = "ready" /\ GetState = GetInitialState)

\* the application's setState was accepted, a listener re-entered setState
\* during its pass, and both listeners were last called with the state
\* the store has now
C23_Witness ==
  /\ ev.op = "returned"
  /\ stack = << >>
  /\ ev.acc
  /\ ev.reent
  /\ Range(listeners) = {"l1", "l2"}
  /\ \A l \in Listeners : views[l] = "current"

\* C24: when createStore returns, getState() and getInitialState() are the
\* object the initializer returned, with its fields, whatever the
\* initializer set before; no call is in progress, so the assignment
\* started no pass, and no listener was called with the returned object.
C24_ReturnOverwrites ==
  ev.op = "created" =>
    /\ GetState = ev.ret
    /\ GetInitialState = ev.ret
    /\ Fields(GetState) = ev.retF
    /\ AtTopLevel
    /\ \A l \in Listeners : views[l] # "current"

\* the initializer subscribed l1 and set the state, l1 was called with
\* that state; the store is returned with the initializer's object
C24_Witness ==
  /\ ev.op = "created"
  /\ ev.before # Undef
  /\ ev.before # GetState
  /\ "l1" \in Range(listeners)
  /\ views["l1"] = "stale"

====
